---------------------------- MODULE Spec2Model ----------------------------
(***************************************************************************)
(* Model of update_performance.py: the Myfxbook batch job that logs in,    *)
(* fetches each registry account's statistics and daily gains, aggregates  *)
(* the daily gains into monthly summaries and writes performance_data.json *)
(*                                                                         *)
(* Text is modelled as sequences of character codes, so that parsing,      *)
(* formatting and the lexicographic sort of month keys are computed the    *)
(* way the code computes them.  Decimal numbers are exact fixed-point      *)
(* values counted in thousandths (1.5 is 1500).                            *)
(***************************************************************************)
EXTENDS Integers, Sequences, FiniteSets, TLC

(***************************************************************************)
(* Text helpers                                                            *)
(***************************************************************************)

\* Character codes of the characters the formats use.
Ch(c) ==
    CASE c = "-" -> 45
      [] c = "." -> 46
      [] c = "0" -> 48

IsDigit(c) == c >= 48 /\ c <= 57

IsDigits(f) == Len(f) > 0 /\ \A i \in 1..Len(f) : IsDigit(f[i])

RECURSIVE NumOf(_)
\* The number a string of digits denotes.
NumOf(f) ==
    IF Len(f) = 0 THEN 0
    ELSE 10 * NumOf(SubSeq(f, 1, Len(f) - 1)) + (f[Len(f)] - 48)

RECURSIVE SplitAt(_, _)
\* The fields of s between occurrences of the separator sep.
SplitAt(s, sep) ==
    IF \A i \in 1..Len(s) : s[i] # sep THEN <<s>>
    ELSE LET p == CHOOSE i \in 1..Len(s) :
                      s[i] = sep /\ \A j \in 1..(i - 1) : s[j] # sep
         IN <<SubSeq(s, 1, p - 1)>> \o SplitAt(SubSeq(s, p + 1, Len(s)), sep)

\* Python's string order: code point by code point, a proper prefix first.
StrLess(a, b) ==
    \/ /\ Len(a) < Len(b)
       /\ \A i \in 1..Len(a) : a[i] = b[i]
    \/ \E i \in 1..Len(a) :
          /\ i <= Len(b)
          /\ a[i] < b[i]
          /\ \A j \in 1..(i - 1) : a[j] = b[j]

Pad2(n) == <<48 + ((n \div 10) % 10), 48 + (n % 10)>>

Pad4(n) ==
    <<48 + ((n \div 1000) % 10), 48 + ((n \div 100) % 10)>> \o Pad2(n % 100)

(***************************************************************************)
(* datetime.strptime / strftime with the formats the program uses          *)
(***************************************************************************)

IsLeap(y) == (y % 4 = 0 /\ y % 100 # 0) \/ y % 400 = 0

DaysInMonth(y, m) ==
    IF m = 2 THEN (IF IsLeap(y) THEN 29 ELSE 28)
    ELSE IF m \in {4, 6, 9, 11} THEN 30 ELSE 31

NoDate == [ok |-> FALSE, y |-> 0, m |-> 0, d |-> 0]

\* %m and %d accept one or two digits, "0" and "00" excluded.
FieldIn(f, lo, hi) ==
    Len(f) \in 1..2 /\ IsDigits(f) /\ NumOf(f) >= lo /\ NumOf(f) <= hi

\* datetime.strptime(date_str, "%Y-%m-%d"); ok = FALSE stands for ValueError.
StrptimeYmd(s) ==
    LET f == SplitAt(s, Ch("-")) IN
    IF /\ Len(f) = 3
       /\ Len(f[1]) = 4 /\ IsDigits(f[1]) /\ NumOf(f[1]) >= 1
       /\ FieldIn(f[2], 1, 12)
       /\ FieldIn(f[3], 1, 31)
       /\ NumOf(f[3]) <= DaysInMonth(NumOf(f[1]), NumOf(f[2]))
    THEN [ok |-> TRUE, y |-> NumOf(f[1]), m |-> NumOf(f[2]), d |-> NumOf(f[3])]
    ELSE NoDate

\* date.strftime("%Y-%m"), for the four-digit years 1000..9999.
StrftimeYm(date) == Pad4(date.y) \o <<Ch("-")>> \o Pad2(date.m)

\* datetime.strptime(month, "%Y-%m")
StrptimeYm(s) ==
    LET f == SplitAt(s, Ch("-")) IN
    IF /\ Len(f) = 2
       /\ Len(f[1]) = 4 /\ IsDigits(f[1]) /\ NumOf(f[1]) >= 1
       /\ FieldIn(f[2], 1, 12)
    THEN [ok |-> TRUE, y |-> NumOf(f[1]), m |-> NumOf(f[2]), d |-> 1]
    ELSE NoDate

MonthName ==
    <<"January", "February", "March", "April", "May", "June", "July",
      "August", "September", "October", "November", "December">>

\* month_date.strftime("%B %Y"): the month's full name and the year.
StrftimeBY(date) == [name |-> MonthName[date.m], year |-> date.y]

(***************************************************************************)
(* float() and round()                                                     *)
(***************************************************************************)

NoFloat == [ok |-> FALSE, v |-> 0]

\* The fraction digits f (at most three) as thousandths.
FracMilli(f) ==
    IF Len(f) = 0 THEN 0
    ELSE IF Len(f) = 1 THEN 100 * NumOf(f)
    ELSE IF Len(f) = 2 THEN 10 * NumOf(f)
    ELSE NumOf(f)

\* float(gain) of a decimal literal [-]digits[.digits], in thousandths;
\* ok = FALSE stands for ValueError.
ParseFloat(s) ==
    LET neg  == Len(s) > 0 /\ s[1] = Ch("-")
        body == IF neg THEN SubSeq(s, 2, Len(s)) ELSE s
        f    == SplitAt(body, Ch("."))
    IN IF /\ Len(f) \in 1..2
          /\ IsDigits(f[1])
          /\ Len(f) = 2 => (IsDigits(f[2]) /\ Len(f[2]) <= 3)
       THEN LET mag == 1000 * NumOf(f[1])
                          + (IF Len(f) = 2 THEN FracMilli(f[2]) ELSE 0)
            IN [ok |-> TRUE, v |-> IF neg THEN 0 - mag ELSE mag]
       ELSE NoFloat

\* The integer nearest to n / d (d > 0), ties to the even neighbour.
RoundDiv(n, d) ==
    LET q == n \div d
        r == n % d
    IN IF 2 * r < d THEN q
       ELSE IF 2 * r > d THEN q + 1
       ELSE IF q % 2 = 0 THEN q ELSE q + 1

\* round(x, 2) on thousandths.
Round2(x) == 10 * RoundDiv(x, 10)

\* round(x, 1) on thousandths.
Round1(x) == 100 * RoundDiv(x, 100)

(***************************************************************************)
(* calculate_monthly_stats                                                 *)
(*                                                                         *)
(* A daily series is [isNone, items]: Python's None, or the dict as the    *)
(* sequence of its (date_str, gain) items in insertion order, the date     *)
(* keys distinct.                                                          *)
(***************************************************************************)

RECURSIVE Sum(_)
\* sum(gains)
Sum(gains) ==
    IF Len(gains) = 0 THEN 0
    ELSE Sum(SubSeq(gains, 1, Len(gains) - 1)) + gains[Len(gains)]

\* AddEntry with the month's list replaced by the new gain, not extended.
AddEntryOverwrite(mr, e) ==
    LET date == StrptimeYmd(e.date) IN
    IF ~date.ok THEN mr
    ELSE LET month_key == StrftimeYm(date)
             mr1 == IF month_key \in DOMAIN mr THEN mr
                    ELSE mr @@ (month_key :> <<>>)
             g   == ParseFloat(e.gain)
         IN IF ~g.ok THEN mr1
            ELSE [mr1 EXCEPT ![month_key] = <<g.v>>]

\* One pass of the loop body over item e, monthly_returns being mr: the
\* date is parsed first, the month's list is created next, and the gain is
\* converted last; either conversion raising skips the rest of the body.
AddEntry(mr, e) ==
    LET date == StrptimeYmd(e.date) IN
    IF ~date.ok THEN mr
    ELSE LET month_key == StrftimeYm(date)
             mr1 == IF month_key \in DOMAIN mr THEN mr
                    ELSE mr @@ (month_key :> <<>>)
             g   == ParseFloat(e.gain)
         IN IF ~g.ok THEN mr1
            ELSE [mr1 EXCEPT ![month_key] = Append(@, g.v)]

RECURSIVE MonthlyReturns(_)
\* monthly_returns after the loop over the items.
MonthlyReturns(items) ==
    IF Len(items) = 0 THEN <<>>
    ELSE AddEntry(MonthlyReturns(SubSeq(items, 1, Len(items) - 1)),
                  items[Len(items)])

RECURSIVE SortedAscending(_)
\* SortedReverse without reverse=True.
SortedAscending(keys) ==
    IF keys = {} THEN <<>>
    ELSE LET low == CHOOSE k \in keys : \A o \in keys \ {k} : StrLess(k, o)
         IN <<low>> \o SortedAscending(keys \ {low})

RECURSIVE SortedReverse(_)
\* sorted(keys, reverse=True): the month keys by descending string order.
SortedReverse(keys) ==
    IF keys = {} THEN <<>>
    ELSE LET top == CHOOSE k \in keys : \A o \in keys \ {k} : StrLess(o, k)
         IN <<top>> \o SortedReverse(keys \ {top})

\* The MonthlySummary of one month key.
MonthlySummary(month, gains) ==
    [month |-> StrftimeBY(StrptimeYm(month)), return |-> Round2(Sum(gains))]

calculate_monthly_stats(daily_data) ==
    IF daily_data.isNone \/ Len(daily_data.items) = 0 THEN <<>>
    ELSE LET mr     == MonthlyReturns(daily_data.items)
             months == SortedReverse(DOMAIN mr)
         IN [i \in 1..Len(months) |-> MonthlySummary(months[i], mr[months[i]])]

(***************************************************************************)
(* The account registry and the API client                                 *)
(***************************************************************************)

\* ACCOUNTS, in the dict's iteration order.
ACCOUNTS ==
    << [key |-> "cent_aggressive", id |-> 11855250,
        name |-> "Cent Aggressive", tier |-> "Tier 1",
        capital_range |-> "$100 - $999",
        fee |-> "$15/month + 0% performance",
        myfxbook_url |-> "portfolio/edgefx-cent-aggressive/11855250",
        signal_url |-> "null"],
       [key |-> "cent_conservative", id |-> 11855302,
        name |-> "Cent Conservative", tier |-> "Tier 2",
        capital_range |-> "$1,000 - $3,000",
        fee |-> "$15/month + 20% performance",
        myfxbook_url |-> "portfolio/edgefx-cent-conservative/11855302",
        signal_url |-> "view/63H6KuV9MVfyOoxI"] >>

\* Python's None where a string may stand (a credential, the session token).
None == "<None>"

\* `not x` of an optional string: None or the empty string.
Falsy(x) == x = None \/ x = ""

\* An HTTP exchange as the client sees it: net is "ok" or "timeout" (the
\* request raised), status the HTTP status, json what response.json() gives:
\* "invalid" (it raises), "error" (the error envelope) or "data".
\* response.raise_for_status() followed by response.json() and the check of
\* data.get("error"): TRUE when one of them raises or the envelope is set.
Failed(resp) ==
    resp.net # "ok" \/ resp.status >= 400 \/ resp.json # "data"

\* One HTTP exchange as recorded in `requests`; outcome is the status, or 0
\* when the request raised.
Exchange(verb, url, resp) ==
    [verb |-> verb, url |-> url,
     outcome |-> IF resp.net = "ok" THEN resp.status ELSE 0]

\* d.get(k, default)
Get(d, k, default) == IF k \in DOMAIN d THEN d[k] ELSE default

\* get_account_data: [raised, value, sent]; value is the account record
\* found, sent the requests issued.
get_account_data(token, resp, account_id) ==
    IF Falsy(token)
    THEN [raised |-> TRUE, value |-> <<>>, sent |-> <<>>]
    ELSE LET sent == <<Exchange("GET", "get-my-accounts.json", resp)>>
             hits == IF Failed(resp) THEN {}
                     ELSE {i \in 1..Len(resp.accounts) :
                               Get(resp.accounts[i], "id", 0) = account_id}
         IN IF hits = {}
            THEN [raised |-> TRUE, value |-> <<>>, sent |-> sent]
            ELSE LET first == CHOOSE i \in hits : \A j \in hits : i <= j
                 IN [raised |-> FALSE, value |-> <<resp.accounts[first]>>,
                     sent |-> sent]

NoneData == [isNone |-> TRUE, items |-> <<>>]

EmptyData == [isNone |-> FALSE, items |-> <<>>]

\* get_daily_data letting a failed exchange raise, as get_account_data does.
get_daily_dataPropagating(token, resp, account_id) ==
    IF Falsy(token)
    THEN [raised |-> TRUE, value |-> NoneData, sent |-> <<>>]
    ELSE LET sent == <<Exchange("GET", "get-data-daily.json", resp)>>
         IN IF Failed(resp)
            THEN [raised |-> TRUE, value |-> NoneData, sent |-> sent]
            ELSE [raised |-> FALSE,
                  value |-> IF Len(resp.dataDaily) = 0 THEN EmptyData
                            ELSE resp.dataDaily[1],
                  sent |-> sent]

\* get_daily_data: [raised, value, sent]; value is the daily series returned
\* (NoneData for None).  resp.dataDaily is <<>> when the key is absent.
get_daily_data(token, resp, account_id) ==
    IF Falsy(token)
    THEN [raised |-> TRUE, value |-> NoneData, sent |-> <<>>]
    ELSE LET sent == <<Exchange("GET", "get-data-daily.json", resp)>>
         IN IF Failed(resp)
            THEN [raised |-> FALSE, value |-> NoneData, sent |-> sent]
            ELSE [raised |-> FALSE,
                  value |-> IF Len(resp.dataDaily) = 0 THEN EmptyData
                            ELSE resp.dataDaily[1],
                  sent |-> sent]

(***************************************************************************)
(* process_account                                                         *)
(***************************************************************************)

\* min(monthly_returns)
Min(rs) == CHOOSE x \in {rs[i] : i \in 1..Len(rs)} :
               \A i \in 1..Len(rs) : x <= rs[i]

\* max(monthly_returns)
Max(rs) == CHOOSE x \in {rs[i] : i \in 1..Len(rs)} :
               \A i \in 1..Len(rs) : x >= rs[i]

\* monthly_stats[:12]
HistoryLimit == 12

\* Head12 keeping the last twelve entries, monthly_stats[-12:].
Head12Oldest(monthly_stats) ==
    SubSeq(monthly_stats,
           IF Len(monthly_stats) < HistoryLimit THEN 1
           ELSE Len(monthly_stats) - HistoryLimit + 1,
           Len(monthly_stats))

Head12(monthly_stats) ==
    SubSeq(monthly_stats, 1,
           IF Len(monthly_stats) < HistoryLimit THEN Len(monthly_stats)
           ELSE HistoryLimit)

\* The "stats" block.  avg_monthly is round(mean(returns), 2): the exact
\* quotient rounded once.
Stats(account_data, monthly_stats) ==
    LET rs == [i \in 1..Len(monthly_stats) |-> monthly_stats[i].return]
        pf == Get(account_data, "profitFactor", 0)
    IN [total_gain  |-> Round2(Get(account_data, "gain", 0)),
        min_monthly |-> IF Len(rs) > 0 THEN Round2(Min(rs)) ELSE 0,
        avg_monthly |-> IF Len(rs) > 0
                        THEN 10 * RoundDiv(Sum(rs), 10 * Len(rs)) ELSE 0,
        max_monthly |-> IF Len(rs) > 0 THEN Round2(Max(rs)) ELSE 0,
        avg_daily   |-> Round2(Get(account_data, "dailyGain", 0)),
        balance     |-> Round2(Get(account_data, "balance", 0)),
        equity      |-> Round2(Get(account_data, "equity", 0)),
        drawdown    |-> Round2(Get(account_data, "drawdown", 0)),
        win_rate    |-> IF pf # 0 THEN Round1(pf * 100) ELSE 0]

\* The AccountResult dict.
Result(account_info, account_data, monthly_stats) ==
    [name            |-> account_info.name,
     tier            |-> account_info.tier,
     capital_range   |-> account_info.capital_range,
     fee             |-> account_info.fee,
     myfxbook_url    |-> account_info.myfxbook_url,
     signal_url      |-> account_info.signal_url,
     stats           |-> Stats(account_data, monthly_stats),
     monthly_history |-> Head12(monthly_stats)]

\* process_account returning a record without statistics, not None, when
\* the primary fetch raises.
process_accountPlaceholder(token, account_info, acct_resp, daily_resp) ==
    LET a == get_account_data(token, acct_resp, account_info.id) IN
    IF a.raised
    THEN [ret  |-> <<Result(account_info, [id |-> account_info.id], <<>>)>>,
          sent |-> a.sent]
    ELSE LET d == get_daily_data(token, daily_resp, account_info.id) IN
         IF d.raised THEN [ret |-> <<>>, sent |-> a.sent \o d.sent]
         ELSE [ret  |-> <<Result(account_info, a.value[1],
                                 calculate_monthly_stats(d.value))>>,
               sent |-> a.sent \o d.sent]

\* process_account: [ret, sent]; ret is <<>> for None and <<result>>
\* otherwise, sent the requests issued.  An exception of either fetch is
\* caught by the function's except clause.
process_account(token, account_info, acct_resp, daily_resp) ==
    LET a == get_account_data(token, acct_resp, account_info.id) IN
    IF a.raised THEN [ret |-> <<>>, sent |-> a.sent]
    ELSE LET d == get_daily_data(token, daily_resp, account_info.id) IN
         IF d.raised THEN [ret |-> <<>>, sent |-> a.sent \o d.sent]
         ELSE [ret  |-> <<Result(account_info, a.value[1],
                                 calculate_monthly_stats(d.value))>>,
               sent |-> a.sent \o d.sent]

(***************************************************************************)
(* State                                                                   *)
(***************************************************************************)

VARIABLES
    pc,                \* position of main()
    killed,            \* the process was interrupted
    email, password,   \* the two credential variables of the environment
    session_token,     \* api.session_token
    response,          \* login's local variable `response`
    requests,          \* every HTTP exchange so far: verb, url, outcome
    idx,               \* position of main's loop in ACCOUNTS
    primary,           \* per account processed: its primary fetch succeeded
    performance_data,  \* main's local variable
    file,              \* performance_data.json on disk
    file0,             \* performance_data.json when the run started
    call,              \* function-level harness: the call's inputs
    ret                \* function-level harness: what the call gave

vars == <<pc, killed, email, password, session_token, response, requests,
          idx, primary, performance_data, file, file0, call, ret>>

mainVars == <<pc, killed, email, password, response, requests, idx, primary,
              performance_data, file, file0>>

(***************************************************************************)
(* What the upstream service may answer                                    *)
(***************************************************************************)

\* Account records of the accounts listing, numeric fields in thousandths;
\* every field but the id may be absent.
AccountRecord(id) ==
    [id |-> id, gain |-> 12346, dailyGain |-> 42, balance |-> 1000004,
     equity |-> 998996, drawdown |-> 7126, profitFactor |-> 1234]

SparseRecord(id) == [id |-> id, profitFactor |-> 0]

HttpFailures ==
    { [net |-> "timeout", status |-> 0,   json |-> "invalid"],
      [net |-> "ok",      status |-> 500, json |-> "invalid"],
      [net |-> "ok",      status |-> 200, json |-> "invalid"],
      [net |-> "ok",      status |-> 200, json |-> "error"] }

HttpData == [net |-> "ok", status |-> 200, json |-> "data"]

WithAccounts(h, accounts) ==
    [net |-> h.net, status |-> h.status, json |-> h.json,
     accounts |-> accounts]

WithDaily(h, dataDaily) ==
    [net |-> h.net, status |-> h.status, json |-> h.json,
     dataDaily |-> dataDaily]

WithSession(h, session) ==
    [net |-> h.net, status |-> h.status, json |-> h.json,
     session |-> session]

AccountListings ==
    { <<>>,
      <<AccountRecord(ACCOUNTS[1].id), AccountRecord(ACCOUNTS[2].id)>>,
      <<SparseRecord(ACCOUNTS[2].id), SparseRecord(ACCOUNTS[1].id)>>,
      <<AccountRecord(ACCOUNTS[2].id)>> }

AcctResponses ==
    {WithAccounts(h, <<>>) : h \in HttpFailures}
        \cup {WithAccounts(HttpData, l) : l \in AccountListings}

LoginResponses ==
    {WithSession(h, None) : h \in HttpFailures}
        \cup {WithSession([net |-> "ok", status |-> 403, json |-> j], None) :
                 j \in {"invalid", "error"}}
        \cup {WithSession(HttpData, t) : t \in {None, "", "a1b2c3"}}

(***************************************************************************)
(* Daily series the upstream service may send                              *)
(***************************************************************************)

\* Longest daily series enumerated entry by entry.
MaxEntries == 3

\* Longest run of consecutive months with one entry each.
MaxMonths == 14

\* The ISO date key YYYY-MM-DD.
DateStr(y, m, d) ==
    Pad4(y) \o <<Ch("-")>> \o Pad2(m) \o <<Ch("-")>> \o Pad2(d)

\* "not-a-date"
NotADate == <<110, 111, 116, 45, 97, 45, 100, 97, 116, 101>>

\* Date keys: four dates in three months over a year's end, and a key that
\* is no date.
DateKeys ==
    { DateStr(2024, 1, 5), DateStr(2024, 1, 20), DateStr(2024, 2, 10),
      DateStr(2023, 12, 31), NotADate }

\* Gains as the service sends them: "1.5", "-2.004" and "abc".
GainTexts ==
    { <<49, 46, 53>>, <<45, 50, 46, 48, 48, 52>>, <<97, 98, 99>> }

KeysOf(items) == {items[i].date : i \in 1..Len(items)}

RECURSIVE SeriesOfLen(_)
\* Every series of exactly n items with distinct date keys.
SeriesOfLen(n) ==
    IF n = 0 THEN {<<>>}
    ELSE UNION { {Append(s, [date |-> k, gain |-> g]) :
                      k \in DateKeys \ KeysOf(s), g \in GainTexts} :
                 s \in SeriesOfLen(n - 1) }

ShortSeries == UNION {SeriesOfLen(n) : n \in 0..MaxEntries}

\* The k-th month counting back from December 2024, k = 1 being December.
MonthBack(k) ==
    LET n == 2024 * 12 + 11 - (k - 1)
    IN [y |-> n \div 12, m |-> (n % 12) + 1]

\* "k.25" or "-k.25"
StepGain(k, neg) ==
    (IF neg THEN <<Ch("-")>> ELSE <<>>)
        \o (IF k < 10 THEN <<48 + k>> ELSE Pad2(k)) \o <<Ch("."), 50, 53>>

\* One entry on the 15th of each of the n most recent months, the gain
\* growing in size with the month's age; newest first or oldest first.
MonthRun(n, neg, newestFirst) ==
    [i \in 1..n |->
        LET k == IF newestFirst THEN i ELSE n + 1 - i
        IN [date |-> DateStr(MonthBack(k).y, MonthBack(k).m, 15),
            gain |-> StepGain(k, neg)]]

LongSeries ==
    {MonthRun(n, neg, nf) : n \in 1..MaxMonths, neg \in BOOLEAN,
                            nf \in BOOLEAN}

Series(items) == [isNone |-> FALSE, items |-> items]

\* The example of the specification: two January entries, one in February.
ExampleSeries ==
    Series(<< [date |-> DateStr(2024, 1, 5),  gain |-> <<49, 46, 53>>],
              [date |-> DateStr(2024, 1, 20), gain |-> <<48, 46, 53>>],
              [date |-> DateStr(2024, 2, 10), gain |-> <<45, 50, 46, 48>>] >>)

\* The few series the batch run is explored with; February 30th is no date.
FewDailyInputs ==
    {NoneData, EmptyData, ExampleSeries,
     Series(<<[date |-> DateStr(2024, 2, 30), gain |-> <<49, 46, 53>>]>>),
     Series(MonthRun(MaxMonths, FALSE, FALSE))}

DailyInputs ==
    FewDailyInputs \cup {Series(s) : s \in ShortSeries \cup LongSeries}

\* The daily-data response: the HTTP exchange h, and in its JSON the key
\* dataDaily absent or holding daily_data.
DailyResp(h, hasKey, daily_data) ==
    WithDaily(h, IF hasKey THEN <<daily_data>> ELSE <<>>)

(***************************************************************************)
(* The batch run: main()                                                   *)
(***************************************************************************)

NoResponse ==
    WithSession([net |-> "none", status |-> 0, json |-> "invalid"], None)

NoCall ==
    [acct_resp |-> WithAccounts(HttpData, <<>>), daily_http |-> HttpData,
     daily_key |-> FALSE, daily_data |-> NoneData]

NoRet ==
    [fn |-> "", raised |-> FALSE, monthly |-> <<>>, result |-> <<>>,
     daily |-> NoneData, sent |-> <<>>]

\* performance_data.json as json.dump writes it, chunk by chunk: the
\* opening with last_updated, one chunk per account, the closing.
Serialize(pd) ==
    <<[kind |-> "open", stamp |-> pd.last_updated, account |-> <<>>]>>
        \o [i \in 1..Len(pd.accounts) |->
               [kind |-> "account", stamp |-> "",
                account |-> <<pd.accounts[i]>>]]
        \o <<[kind |-> "close", stamp |-> "", account |-> <<>>]>>

NoFile == [exists |-> FALSE, content |-> <<>>]

\* The snapshot an earlier run left.
PreviousFile ==
    [exists  |-> TRUE,
     content |-> Serialize(
         [last_updated |-> "2024-12-01T00:00:00Z",
          accounts |-> <<Result(ACCOUNTS[1], AccountRecord(ACCOUNTS[1].id),
                                <<>>)>>])]

\* NeedsPost falling back on every error status.
NeedsPostAnyError(resp) == resp.status >= 400

\* `if response.status_code == 403`
NeedsPost(resp) == resp.status = 403

\* LoginOk without the check of the error envelope.
LoginOkAnyBody(resp) == resp.net = "ok" /\ resp.status < 400

\* login's checks after the request: raise_for_status(), json(), the error
\* envelope, and the slice of the session token (None cannot be sliced).
LoginOk(resp) == ~Failed(resp) /\ resp.session # None

Init ==
    /\ pc = "start"
    /\ killed = FALSE
    /\ email \in {None, "", "ops@example.com"}
    /\ password \in {None, "", "hunter2"}
    /\ session_token = None
    /\ response = NoResponse
    /\ requests = <<>>
    /\ idx = 1
    /\ primary = <<>>
    /\ performance_data = [last_updated |-> "", accounts |-> <<>>]
    /\ file \in {NoFile, PreviousFile}
    /\ file0 = file
    /\ call = NoCall
    /\ ret = NoRet

\* main, lines 226-235: the credentials are read and checked, the client is
\* constructed.
CheckCredentials ==
    /\ pc = "start" /\ ~killed
    /\ pc' = IF Falsy(email) \/ Falsy(password) THEN "aborted"
             ELSE "login_get"
    /\ UNCHANGED <<killed, email, password, session_token, response,
                   requests, idx, primary, performance_data, file, file0,
                   call, ret>>

\* login, line 66: the GET request; a request that raises ends login and,
\* through main's re-raise, the run.
LoginGet ==
    /\ pc = "login_get" /\ ~killed
    /\ \E r \in LoginResponses :
          /\ requests' = Append(requests, Exchange("GET", "login.json", r))
          /\ response' = IF r.net = "ok" THEN r ELSE response
          /\ pc' = IF r.net # "ok" THEN "aborted"
                   ELSE IF NeedsPost(r) THEN "login_post"
                   ELSE "login_parse"
    /\ UNCHANGED <<killed, email, password, session_token, idx, primary,
                   performance_data, file, file0, call, ret>>

\* login, lines 69-72: the POST request after a 403.
LoginPost ==
    /\ pc = "login_post" /\ ~killed
    /\ \E r \in LoginResponses :
          /\ requests' = Append(requests, Exchange("POST", "login.json", r))
          /\ response' = IF r.net = "ok" THEN r ELSE response
          /\ pc' = IF r.net # "ok" THEN "aborted" ELSE "login_parse"
    /\ UNCHANGED <<killed, email, password, session_token, idx, primary,
                   performance_data, file, file0, call, ret>>

\* login, lines 74-92, and main, lines 239-253: the response is checked and
\* the token stored; on success main creates performance_data.
LoginParse ==
    /\ pc = "login_parse" /\ ~killed
    /\ session_token' = IF Failed(response) THEN session_token
                        ELSE response.session
    /\ pc' = IF LoginOk(response) THEN "process" ELSE "aborted"
    /\ performance_data' =
          IF LoginOk(response)
          THEN [last_updated |-> "2025-01-01T00:00:00Z", accounts |-> <<>>]
          ELSE performance_data
    /\ UNCHANGED <<killed, email, password, response, requests, idx,
                   primary, file, file0, call, ret>>

\* main, lines 255-258: one iteration of the loop over ACCOUNTS.
ProcessNext ==
    /\ pc = "process" /\ ~killed
    /\ idx <= Len(ACCOUNTS)
    /\ \E a \in AcctResponses, h \in HttpFailures \cup {HttpData},
          k \in BOOLEAN, dd \in FewDailyInputs :
          LET r == process_account(session_token, ACCOUNTS[idx], a,
                                   DailyResp(h, k, dd))
          IN /\ performance_data' =
                   [performance_data EXCEPT !.accounts = @ \o r.ret]
             /\ requests' = requests \o r.sent
             /\ primary' = Append(primary,
                   ~get_account_data(session_token, a,
                                     ACCOUNTS[idx].id).raised)
    /\ idx' = idx + 1
    /\ UNCHANGED <<pc, killed, email, password, session_token, response,
                   file, file0, call, ret>>

\* main, line 261: open(output_file, 'w') creates or truncates the file.
OpenOutput ==
    /\ pc = "process" /\ ~killed
    /\ idx > Len(ACCOUNTS)
    /\ file' = [exists |-> TRUE, content |-> <<>>]
    /\ pc' = "dump"
    /\ UNCHANGED <<killed, email, password, session_token, response,
                   requests, idx, primary, performance_data, file0, call,
                   ret>>

\* main, line 262: json.dump writes the next chunk.
DumpChunk ==
    /\ pc = "dump" /\ ~killed
    /\ Len(file.content) < Len(Serialize(performance_data))
    /\ file' = [file EXCEPT !.content =
                   Append(@, Serialize(performance_data)[Len(@) + 1])]
    /\ UNCHANGED <<pc, killed, email, password, session_token, response,
                   requests, idx, primary, performance_data, file0, call,
                   ret>>

\* main, lines 261-266: the with block ends, the file is closed.
CloseOutput ==
    /\ pc = "dump" /\ ~killed
    /\ Len(file.content) = Len(Serialize(performance_data))
    /\ pc' = "done"
    /\ UNCHANGED <<killed, email, password, session_token, response,
                   requests, idx, primary, performance_data, file, file0,
                   call, ret>>

\* The process is interrupted (a signal, the job's time limit).
Kill ==
    /\ ~killed /\ pc \notin {"done", "aborted", "unit"}
    /\ killed' = TRUE
    /\ UNCHANGED <<pc, email, password, session_token, response, requests,
                   idx, primary, performance_data, file, file0, call, ret>>

Next ==
    \/ CheckCredentials
    \/ LoginGet
    \/ LoginPost
    \/ LoginParse
    \/ ProcessNext
    \/ OpenOutput
    \/ DumpChunk
    \/ CloseOutput
    \/ Kill

Spec == Init /\ [][Next]_vars

(***************************************************************************)
(* The functions called one at a time: a client in any of its states, one  *)
(* upstream answer per endpoint, and one call of one function.             *)
(***************************************************************************)

GoodListing ==
    WithAccounts(HttpData,
        <<AccountRecord(ACCOUNTS[1].id), AccountRecord(ACCOUNTS[2].id)>>)

InitUnit ==
    /\ pc = "unit"
    /\ killed = FALSE
    /\ email = "ops@example.com"
    /\ password = "hunter2"
    /\ response = NoResponse
    /\ requests = <<>>
    /\ idx = 1
    /\ primary = <<>>
    /\ performance_data = [last_updated |-> "", accounts |-> <<>>]
    /\ file = NoFile
    /\ file0 = NoFile
    /\ ret = NoRet
    /\ \/ /\ session_token = "a1b2c3"
          /\ call \in [acct_resp : {GoodListing}, daily_http : {HttpData},
                       daily_key : {TRUE}, daily_data : DailyInputs]
       \/ /\ session_token \in {None, "", "a1b2c3"}
          /\ call \in [acct_resp : AcctResponses,
                       daily_http : HttpFailures \cup {HttpData},
                       daily_key : BOOLEAN, daily_data : FewDailyInputs]

CallDailyResp == DailyResp(call.daily_http, call.daily_key, call.daily_data)

\* api.get_account_data(ACCOUNTS[1].id)
CallGetAccountData ==
    /\ pc = "unit" /\ ret.fn = ""
    /\ LET r == get_account_data(session_token, call.acct_resp,
                                 ACCOUNTS[1].id)
       IN ret' = [NoRet EXCEPT !.fn = "get_account_data",
                               !.raised = r.raised, !.sent = r.sent]
    /\ UNCHANGED <<mainVars, session_token, call>>

\* api.get_daily_data(ACCOUNTS[1].id)
CallGetDailyData ==
    /\ pc = "unit" /\ ret.fn = ""
    /\ LET r == get_daily_data(session_token, CallDailyResp, ACCOUNTS[1].id)
       IN ret' = [NoRet EXCEPT !.fn = "get_daily_data",
                               !.raised = r.raised, !.daily = r.value,
                               !.sent = r.sent]
    /\ UNCHANGED <<mainVars, session_token, call>>

\* calculate_monthly_stats(call.daily_data)
CallCalculateMonthlyStats ==
    /\ pc = "unit" /\ ret.fn = ""
    /\ ret' = [NoRet EXCEPT !.fn = "calculate_monthly_stats",
                            !.monthly =
                                calculate_monthly_stats(call.daily_data)]
    /\ UNCHANGED <<mainVars, session_token, call>>

\* process_account(api, "cent_aggressive", ACCOUNTS[1])
CallProcessAccount ==
    /\ pc = "unit" /\ ret.fn = ""
    /\ LET r == process_account(session_token, ACCOUNTS[1], call.acct_resp,
                                CallDailyResp)
       IN ret' = [NoRet EXCEPT !.fn = "process_account",
                               !.result = r.ret, !.sent = r.sent]
    /\ UNCHANGED <<mainVars, session_token, call>>

NextUnit ==
    \/ CallGetAccountData
    \/ CallGetDailyData
    \/ CallCalculateMonthlyStats
    \/ CallProcessAccount

SpecUnit == InitUnit /\ [][NextUnit]_vars

(***************************************************************************)
(* Properties                                                              *)
(***************************************************************************)

MonthNumber(name) == CHOOSE m \in 1..12 : MonthName[m] = name

\* A month label's place in time.
Chron(label) == 12 * label.year + MonthNumber(label.name)

\* The entry parses: a date key strptime accepts and a numeric gain.
Wellformed(e) == StrptimeYmd(e.date).ok /\ ParseFloat(e.gain).ok

\* Every entry is valid: an ISO date YYYY-MM-DD and a numeric gain.
AllValid(dd) ==
    /\ ~dd.isNone
    /\ \A i \in 1..Len(dd.items) :
          Wellformed(dd.items[i]) /\ Len(dd.items[i].date) = 10

RemoveAt(items, i) ==
    SubSeq(items, 1, i - 1) \o SubSeq(items, i + 1, Len(items))

RECURSIVE GainSum(_, _)
\* The sum of the gains of the items at the indices in S, in thousandths.
GainSum(items, S) ==
    IF S = {} THEN 0
    ELSE LET i == CHOOSE j \in S : TRUE
         IN ParseFloat(items[i].gain).v + GainSum(items, S \ {i})

\* The label of the month a YYYY-MM prefix names.
LabelOfPrefix(p) ==
    [name |-> MonthName[NumOf(SubSeq(p, 6, 7))],
     year |-> NumOf(SubSeq(p, 1, 4))]

\* r is x rounded to two decimal places.
IsRounded2(r, x) == r % 10 = 0 /\ 2 * r - 2 * x <= 10 /\ 2 * x - 2 * r <= 10

\* The daily fetch of the call delivers a series.
DailyDelivered == ~Failed(CallDailyResp) /\ call.daily_key

\* The primary statistics fetch of the call succeeds.
PrimaryOk ==
    /\ ~Falsy(session_token)
    /\ ~Failed(call.acct_resp)
    /\ \E i \in 1..Len(call.acct_resp.accounts) :
          call.acct_resp.accounts[i].id = ACCOUNTS[1].id

RECURSIVE KeptNames(_)
\* The names of the first n registry accounts whose primary fetch succeeded.
KeptNames(n) ==
    IF n = 0 THEN <<>>
    ELSE KeptNames(n - 1)
            \o (IF primary[n] THEN <<ACCOUNTS[n].name>> ELSE <<>>)

IsLogin(e) == e.url = "login.json"

LoginLog == SelectSeq(requests, IsLogin)

C2_FatalLeavesOutput ==
    /\ (Falsy(email) \/ Falsy(password)) =>
          pc \in {"start", "aborted"} /\ requests = <<>> /\ file = file0
    /\ pc \in {"start", "login_get", "login_post", "login_parse", "aborted"}
          => /\ \A i \in 1..Len(requests) : requests[i].url = "login.json"
             /\ file = file0
    /\ pc \in {"process", "dump", "done"} =>
          /\ ~Falsy(email) /\ ~Falsy(password)
          /\ LoginLog[Len(LoginLog)].outcome = 200
          /\ response.json = "data"
          /\ response.session # None

\* C2 witness: a run over an existing output file that aborted after the
\* POST login request failed too.
C2_Witness ==
    /\ pc = "aborted"
    /\ file0.exists
    /\ Len(requests) = 2
    /\ requests[2].outcome # 200

\* C10: login issues at most two requests, the first a GET; a second one is
\* a POST and follows only a GET answered 403; and when the POST fails the
\* run aborts with no further request.
C10_SingleVerbFallback ==
    /\ Len(LoginLog) <= 2
    /\ pc \notin {"start", "login_get", "aborted"} => Len(LoginLog) >= 1
    /\ Len(LoginLog) >= 1 => LoginLog[1].verb = "GET"
    /\ Len(LoginLog) = 2 =>
          LoginLog[2].verb = "POST" /\ LoginLog[1].outcome = 403
    /\ pc = "login_post" => Len(LoginLog) = 1
    /\ (Len(LoginLog) = 2 /\ LoginLog[2].outcome # 200
            /\ pc # "login_parse") => pc = "aborted"

\* C10 witness: the GET was answered 403, the POST was answered 403 too, and
\* the run has aborted after these two requests.
C10_Witness ==
    /\ pc = "aborted"
    /\ Len(LoginLog) = 2
    /\ LoginLog[1].outcome = 403
    /\ LoginLog[2].outcome = 403

\* C8: at every point of a run the output file is either as the run found
\* it or holds the complete new snapshot.
C8_AtomicWrite ==
    \/ file = file0
    \/ file.exists /\ file.content = Serialize(performance_data)

\* C4: the summaries calculate_monthly_stats returns are strictly
\* descending by calendar month: each entry's month is later than the month
\* of the entry after it.
C4_StrictlyDescending ==
    ret.fn = "calculate_monthly_stats" =>
        \A i \in 1..(Len(ret.monthly) - 1) :
            Chron(ret.monthly[i].month) > Chron(ret.monthly[i + 1].month)

\* C4 witness: a valid series over at least three months that span the end
\* of a year has been aggregated.
C4_Witness ==
    /\ ret.fn = "calculate_monthly_stats"
    /\ AllValid(call.daily_data)
    /\ Len(ret.monthly) >= 3
    /\ ret.monthly[1].month.year > ret.monthly[Len(ret.monthly)].month.year

\* C5: for every entry of the series whose date key does not parse or whose
\* gain is not numeric, calculate_monthly_stats returns what it returns on
\* the series without that entry.
C5_MalformedEntrySkipped ==
    ret.fn = "calculate_monthly_stats" =>
        \A i \in 1..Len(call.daily_data.items) :
            ~Wellformed(call.daily_data.items[i]) =>
                ret.monthly = calculate_monthly_stats(
                    Series(RemoveAt(call.daily_data.items, i)))

\* C6: on a series of valid entries calculate_monthly_stats returns one
\* summary per distinct YYYY-MM prefix of the date keys, its return the sum
\* of the gains of that month rounded to two decimal places; on the
\* specification's example it returns February 2024 with -2.0 and then
\* January 2024 with 2.0, and process_account derives min -2.0, max 2.0 and
\* avg 0.0.
C6_GroupAndSum ==
    /\ (ret.fn = "calculate_monthly_stats" /\ AllValid(call.daily_data)) =>
          LET items    == call.daily_data.items
              prefixes == {SubSeq(items[i].date, 1, 7) : i \in 1..Len(items)}
          IN /\ Len(ret.monthly) = Cardinality(prefixes)
             /\ \A p \in prefixes :
                   \E j \in 1..Len(ret.monthly) :
                      /\ ret.monthly[j].month = LabelOfPrefix(p)
                      /\ IsRounded2(ret.monthly[j].return,
                            GainSum(items, {i \in 1..Len(items) :
                                SubSeq(items[i].date, 1, 7) = p}))
    /\ (ret.fn = "calculate_monthly_stats"
            /\ call.daily_data = ExampleSeries) =>
          ret.monthly =
             << [month |-> [name |-> "February", year |-> 2024],
                 return |-> -2000],
                [month |-> [name |-> "January", year |-> 2024],
                 return |-> 2000] >>
    /\ (ret.fn = "process_account" /\ call.daily_data = ExampleSeries
            /\ PrimaryOk /\ DailyDelivered) =>
          /\ Len(ret.result) = 1
          /\ ret.result[1].stats.min_monthly = -2000
          /\ ret.result[1].stats.max_monthly = 2000
          /\ ret.result[1].stats.avg_monthly = 0

\* C6 witness: a valid series with two entries in one month and a third in
\* another has been aggregated, and the two gains of -2.004 sum to -4.01.
C6_Witness ==
    /\ ret.fn = "calculate_monthly_stats"
    /\ AllValid(call.daily_data)
    /\ Len(call.daily_data.items) = 3
    /\ Len(ret.monthly) = 2
    /\ \E j \in 1..2 : ret.monthly[j].return = -4010

\* The summaries process_account has aggregated in the call.
CallMonthly ==
    IF DailyDelivered THEN calculate_monthly_stats(call.daily_data) ELSE <<>>

C7_Truncation ==
    (ret.fn = "process_account" /\ Len(ret.result) = 1) =>
        LET ms == CallMonthly
            n  == Len(ms)
            r  == ret.result[1]
        IN /\ Len(r.monthly_history) = IF n > 12 THEN 12 ELSE n
           /\ \A i \in 1..Len(r.monthly_history) : r.monthly_history[i] = ms[i]
           /\ \A i \in 1..(Len(r.monthly_history) - 1) :
                 Chron(r.monthly_history[i].month)
                     > Chron(r.monthly_history[i + 1].month)
           /\ n > 0 =>
                 /\ \E i \in 1..n : ms[i].return = r.stats.min_monthly
                 /\ \A i \in 1..n : ms[i].return >= r.stats.min_monthly
                 /\ \E i \in 1..n : ms[i].return = r.stats.max_monthly
                 /\ \A i \in 1..n : ms[i].return <= r.stats.max_monthly
                 /\ r.stats.avg_monthly % 10 = 0
                 /\ 2 * (n * r.stats.avg_monthly
                           - Sum([i \in 1..n |-> ms[i].return])) <= 10 * n
                 /\ 2 * (Sum([i \in 1..n |-> ms[i].return])
                           - n * r.stats.avg_monthly) <= 10 * n

\* C7 witness: process_account has returned a result for more than twelve
\* months of summaries whose largest return lies in a month that was cut.
C7_Witness ==
    /\ ret.fn = "process_account"
    /\ Len(ret.result) = 1
    /\ Len(CallMonthly) > 12
    /\ Len(ret.result[1].monthly_history) = 12
    /\ \A i \in 1..12 : ret.result[1].monthly_history[i].return
                            < ret.result[1].stats.max_monthly

\* C9: get_daily_data never raises, whatever the client's state and the
\* upstream answer.
C9_DailyNeverRaises == ret.fn = "get_daily_data" => ~ret.raised

============================================================================
